---------------------------- MODULE Spec2Model ----------------------------
(***************************************************************************)
(* AeroWeather: the refresh coordinator (coordinator.py), the sensor       *)
(* metric functions (sensor.py) and the configuration flows                *)
(* (config_flow.py) as a state machine.                                    *)
(*                                                                         *)
(* Representation                                                          *)
(*   - a Python str is a sequence of one-character strings;                *)
(*   - a Python float is a rational [num, den] with den > 0, or a          *)
(*     non-finite value with den = 0 (num = 0: nan, 1: inf, -1: -inf);     *)
(*   - a JSON value is a record tagged by t: "null", "num", "str",         *)
(*     "list" or "obj"; an object is a function from keys to JSON values.  *)
(***************************************************************************)
EXTENDS Integers, Sequences, FiniteSets, TLC

VARIABLES
    icaos,      \* coordinator.icaos: the configured station list
    data,       \* coordinator.data: None or the published snapshot
    pc,         \* position of the refresh body: "idle" or "gathering"
    tasks,      \* the two _fetch tasks of asyncio.gather, by endpoint
    cycle,      \* number of refresh cycles started
    outcome,    \* how the last finished cycle ended
    lastRead,   \* what the last native_value / extra_state_attributes read returned
    flow,       \* the configuration flow: last submission and its result
    bulk        \* one call of fetch_notams_bulk: its tasks, results and outcome

vars == <<icaos, data, pc, tasks, cycle, outcome, lastRead, flow, bulk>>

None == [t |-> "null"]

(***************************************************************************)
(* Strings                                                                 *)
(***************************************************************************)
Digits == <<"0", "1", "2", "3", "4", "5", "6", "7", "8", "9">>
LowerCase == <<"a", "b", "c", "d", "e", "f", "g", "h", "i", "j", "k", "l", "m",
               "n", "o", "p", "q", "r", "s", "t", "u", "v", "w", "x", "y", "z">>
UpperCase == <<"A", "B", "C", "D", "E", "F", "G", "H", "I", "J", "K", "L", "M",
               "N", "O", "P", "Q", "R", "S", "T", "U", "V", "W", "X", "Y", "Z">>
\* The characters of the model in ASCII order (the order sorted() uses).
Ascii == <<"\t", "\n", " ", "+", ",", "-", ".", "/">> \o Digits \o <<";">> \o UpperCase
         \o <<"_">> \o LowerCase

Range(s) == {s[i] : i \in DOMAIN s}
IndexOf(seq, c) == CHOOSE i \in DOMAIN seq : seq[i] = c
Ord(c) == IndexOf(Ascii, c)
IsDigit(c) == c \in Range(Digits)
DigitVal(c) == IndexOf(Digits, c) - 1
IsSpace(c) == c \in {" ", "\t", "\n"}
\* \w of the re module
IsWordChar(c) == c \in Range(Digits) \cup Range(UpperCase) \cup Range(LowerCase) \cup {"_"}

UpperChar(c) == IF c \in Range(LowerCase) THEN UpperCase[IndexOf(LowerCase, c)] ELSE c
\* str.upper()
Upper(s) == [i \in DOMAIN s |-> UpperChar(s[i])]

RECURSIVE LStrip(_)
LStrip(s) == IF s # <<>> /\ IsSpace(Head(s)) THEN LStrip(Tail(s)) ELSE s
RECURSIVE RStrip(_)
RStrip(s) == IF s # <<>> /\ IsSpace(s[Len(s)]) THEN RStrip(SubSeq(s, 1, Len(s) - 1)) ELSE s
\* str.strip()
Strip(s) == RStrip(LStrip(s))

\* int() of a string of decimal digits
RECURSIVE DigitsToInt(_)
DigitsToInt(s) ==
    IF s = <<>> THEN 0 ELSE 10 * DigitsToInt(SubSeq(s, 1, Len(s) - 1)) + DigitVal(s[Len(s)])
AllDigits(s) == \A i \in DOMAIN s : IsDigit(s[i])
RECURSIVE Pow10(_)
Pow10(n) == IF n = 0 THEN 1 ELSE 10 * Pow10(n - 1)

(***************************************************************************)
(* Floats                                                                  *)
(***************************************************************************)
RECURSIVE GCD(_, _)
GCD(a, b) == IF b = 0 THEN a ELSE GCD(b, a % b)
Abs(n) == IF n < 0 THEN -n ELSE n
Sign(n) == IF n < 0 THEN -1 ELSE IF n > 0 THEN 1 ELSE 0

NaN == [num |-> 0, den |-> 0]
Inf == [num |-> 1, den |-> 0]
IsFinite(f) == f.den > 0
IsNaN(f) == f.den = 0 /\ f.num = 0
\* the finite float n/d, d > 0, in lowest terms
Rat(n, d) == LET g == GCD(Abs(n), d) IN [num |-> n \div g, den |-> d \div g]
FInt(n) == [num |-> n, den |-> 1]

FNeg(a) == [num |-> -a.num, den |-> a.den]
FAdd(a, b) ==
    IF IsFinite(a) /\ IsFinite(b) THEN Rat(a.num * b.den + b.num * a.den, a.den * b.den)
    ELSE IF IsNaN(a) \/ IsNaN(b) THEN NaN
    ELSE IF IsFinite(a) THEN b
    ELSE IF IsFinite(b) \/ a = b THEN a
    ELSE NaN
FSub(a, b) == FAdd(a, FNeg(b))
FMul(a, b) ==
    IF IsFinite(a) /\ IsFinite(b) THEN Rat(a.num * b.num, a.den * b.den)
    ELSE IF IsNaN(a) \/ IsNaN(b) \/ a.num = 0 \/ b.num = 0 THEN NaN
    ELSE [num |-> Sign(a.num) * Sign(b.num), den |-> 0]
\* a / b for a finite b # 0
FDiv(a, b) ==
    IF IsFinite(a) THEN Rat(Sign(b.num) * a.num * b.den, a.den * Abs(b.num))
    ELSE IF IsNaN(a) THEN NaN
    ELSE [num |-> a.num * Sign(b.num), den |-> 0]
\* a < b as Python compares floats: every comparison with nan is False
FLess(a, b) ==
    IF IsNaN(a) \/ IsNaN(b) THEN FALSE
    ELSE IF IsFinite(a) /\ IsFinite(b) THEN a.num * b.den < b.num * a.den
    ELSE IF IsFinite(a) THEN b.num > 0
    ELSE IF IsFinite(b) THEN a.num < 0
    ELSE a.num < b.num

\* the integer nearest to n/d, d > 0, ties to the even one (Python's round)
RoundDiv(n, d) ==
    LET q == n \div d
        r == n % d
    IN  IF 2 * r < d THEN q
        ELSE IF 2 * r > d THEN q + 1
        ELSE IF q % 2 = 0 THEN q ELSE q + 1
\* round(f, 2)
Round2(f) == IF IsFinite(f) THEN Rat(RoundDiv(f.num * 100, f.den), 100) ELSE f

(***************************************************************************)
(* JSON values                                                             *)
(***************************************************************************)
JNum(n, d) == [t |-> "num", f |-> Rat(n, d)]
JFloat(f) == [t |-> "num", f |-> f]
JStr(s) == [t |-> "str", s |-> s]
JList(xs) == [t |-> "list", items |-> xs]
JObj(o) == [t |-> "obj", o |-> o]
EmptyObj == JObj(<<>>)

\* dict.get(key)
Get(d, key) == IF key \in DOMAIN d.o THEN d.o[key] ELSE None
\* bool(value): empty containers, empty strings, 0 and None are falsy
Truthy(v) ==
    CASE v.t = "null" -> FALSE
      [] v.t = "num" -> v.f.num # 0 \/ v.f.den = 0
      [] v.t = "str" -> v.s # <<>>
      [] v.t = "list" -> v.items # <<>>
      [] v.t = "obj" -> DOMAIN v.o # {}


(***************************************************************************)
(* Coercion and lookup utilities (sensor.py)                               *)
(***************************************************************************)
\* _first_present(d, keys): the first key of keys that d holds with a non-null value
RECURSIVE FirstPresent(_, _)
FirstPresent(d, keys) ==
    IF keys = <<>> THEN None
    ELSE IF Head(keys) \in DOMAIN d.o /\ d.o[Head(keys)] # None THEN d.o[Head(keys)]
    ELSE FirstPresent(d, Tail(keys))

\* position of the first "." of s, 0 when there is none
DotAt(s) ==
    IF \E i \in DOMAIN s : s[i] = "."
    THEN CHOOSE i \in DOMAIN s : s[i] = "." /\ \A j \in 1..(i - 1) : s[j] # "."
    ELSE 0
\* float(s) of an unsigned literal: digits, digits.digits, digits. or .digits
\* (None stands for ValueError); literals with an exponent are outside the model
ParseUnsigned(s) ==
    LET d == DotAt(s)
        ip == IF d = 0 THEN s ELSE SubSeq(s, 1, d - 1)
        fp == IF d = 0 THEN <<>> ELSE SubSeq(s, d + 1, Len(s))
    IN  IF AllDigits(ip) /\ AllDigits(fp) /\ Len(ip) + Len(fp) > 0
        THEN Rat(DigitsToInt(ip) * Pow10(Len(fp)) + DigitsToInt(fp), Pow10(Len(fp)))
        ELSE None
\* float(s) for a str s: surrounding whitespace and a sign are accepted, and so
\* are the non-finite literals nan, inf, infinity in any case
ParseFloat(s) ==
    LET b == Strip(s)
        neg == b # <<>> /\ Head(b) = "-"
        body == IF b # <<>> /\ Head(b) \in {"+", "-"} THEN Tail(b) ELSE b
        u == Upper(body)
        mag == IF u = <<"N", "A", "N">> THEN NaN
               ELSE IF u \in {<<"I", "N", "F">>, <<"I", "N", "F", "I", "N", "I", "T", "Y">>}
               THEN Inf
               ELSE ParseUnsigned(body)
    IN  IF mag = None THEN None ELSE IF neg THEN FNeg(mag) ELSE mag

\* _to_float(val): None for None and for what float() refuses (TypeError, ValueError)
ToFloat(val) ==
    CASE val.t = "null" -> None
      [] val.t = "num" -> val.f
      [] val.t = "str" -> ParseFloat(val.s)
      [] OTHER -> None

(***************************************************************************)
(* Altimeter (sensor.py)                                                   *)
(***************************************************************************)
\* ALTIM_HPA_PER_INHG = 33.8638866667, kept to four decimals (times 10^4) so that
\* the quotients stay within TLC's integers; for whole hPa values from 735 to 1350
\* the quotient rounded to two decimals is the one the full constant gives.
ALTIM_HPA_PER_INHG_E4 == 338639
ALTIM_HPA_PER_INHG == Rat(ALTIM_HPA_PER_INHG_E4, 10000)

\* re.search(r"\b<letter>(\d{4})\b", s): the four digits as an int, -1 without a match
TokenSearch(s, letter) ==
    LET hits == {i \in 1..(Len(s) - 4) :
                    /\ s[i] = letter
                    /\ AllDigits(SubSeq(s, i + 1, i + 4))
                    /\ (i = 1 \/ ~IsWordChar(s[i - 1]))
                    /\ (i + 4 = Len(s) \/ ~IsWordChar(s[i + 5]))}
    IN  IF hits = {} THEN -1
        ELSE LET i == CHOOSE h \in hits : \A g \in hits : h <= g
             IN  DigitsToInt(SubSeq(s, i + 1, i + 4))

\* the numeric path of _altimeter_to_inhg: above 80 the number is hPa
AltimeterNumeric(f) ==
    IF f = None THEN None
    ELSE IF FLess(FInt(80), f) THEN Round2(FDiv(f, ALTIM_HPA_PER_INHG))
    ELSE Round2(f)

\* _altimeter_to_inhg(val)
AltimeterToInhg(val) ==
    IF val = None THEN None
    ELSE IF val.t = "str"
    THEN LET s == Upper(Strip(val.s))
             a == TokenSearch(s, "A")
             q == TokenSearch(s, "Q")
         IN  IF a >= 0 THEN Round2(Rat(a, 100))
             ELSE IF q >= 0 THEN Round2(FDiv(FInt(q), ALTIM_HPA_PER_INHG))
             ELSE AltimeterNumeric(ParseFloat(s))
    ELSE AltimeterNumeric(ToFloat(val))

\* _altim_inhg(metar)
AltimInhg(metar) ==
    AltimeterToInhg(FirstPresent(metar,
        <<"altim", "altimHg", "altimeter", "altim_inhg", "qnh", "QNH">>))

\* _temp_c(metar)
TempC(metar) == ToFloat(FirstPresent(metar, <<"temp", "tempC", "temperature", "tmpc">>))

(***************************************************************************)
(* Ceiling and flight category (sensor.py)                                 *)
(***************************************************************************)
\* what a function returns when it raises instead
Raise == [t |-> "raise"]

BKN == <<"B", "K", "N">>
OVC == <<"O", "V", "C">>
VV == <<"V", "V">>
FEW == <<"F", "E", "W">>
SCT == <<"S", "C", "T">>
CLR == <<"C", "L", "R">>
SKC == <<"S", "K", "C">>
Clear == <<"C", "l", "e", "a", "r">>

\* cover in ("BKN", "OVC", "VV")
IsCeilingCover(cover) == cover.t = "str" /\ cover.s \in {BKN, OVC, VV}

\* the loop over the layers: the bases appended to ceilings, in order
RECURSIVE CeilingBases(_)
CeilingBases(layers) ==
    IF layers = <<>> THEN <<>>
    ELSE LET layer == Head(layers)
             base == ToFloat(Get(layer, "base_ft_agl"))
         IN  IF IsCeilingCover(Get(layer, "cover")) /\ base # None
             THEN <<base>> \o CeilingBases(Tail(layers))
             ELSE CeilingBases(Tail(layers))

\* min(xs) of a non-empty list of floats: a later item replaces the minimum when
\* it compares less
RECURSIVE MinFrom(_, _)
MinFrom(m, xs) ==
    IF xs = <<>> THEN m
    ELSE MinFrom(IF FLess(Head(xs), m) THEN Head(xs) ELSE m, Tail(xs))
MinF(xs) == MinFrom(Head(xs), Tail(xs))

\* for layer in layers: layer.get(...) raises unless layers is a list of objects
LayersIterable(layers) ==
    layers.t = "list" /\ \A i \in DOMAIN layers.items : layers.items[i].t = "obj"

\* the body shared by the two ceiling functions; they differ in what they
\* return when no ceiling is reported
CeilingOr(metar, noCeiling) ==
    LET layers == Get(metar, "clouds")
    IN  IF ~Truthy(layers) THEN noCeiling
        ELSE IF ~LayersIterable(layers) THEN Raise
        ELSE LET ceilings == CeilingBases(layers.items)
             IN  IF ceilings # <<>> THEN MinF(ceilings) ELSE noCeiling

\* the variant that returns 0 where no ceiling is reported
CeilFtFromLayersZero(metar) == CeilingOr(metar, FInt(0))

\* _ceil_ft_from_layers(metar): a float, or the str "Clear"
CeilFtFromLayers(metar) == CeilingOr(metar, JStr(Clear))

\* _parse_ceiling_ft(metar): a float, or 0
ParseCeilingFt(metar) == CeilingOr(metar, FInt(0))

METERS_PER_MILE == Rat(1609344, 1000)

LIFR == <<"L", "I", "F", "R">>
IFR == <<"I", "F", "R">>
MVFR == <<"M", "V", "F", "R">>
VFR == <<"V", "F", "R">>

\* the variant whose thresholds need ceiling and visibility both below
ClassifyBoth(ceiling_eff, vis_eff) ==
    IF FLess(ceiling_eff, FInt(500)) /\ FLess(vis_eff, FInt(1)) THEN LIFR
    ELSE IF FLess(ceiling_eff, FInt(1000)) /\ FLess(vis_eff, FInt(3)) THEN IFR
    ELSE IF FLess(ceiling_eff, FInt(3000)) /\ FLess(vis_eff, FInt(5)) THEN MVFR
    ELSE VFR

\* the thresholds of _flight_category_from_metar
Classify(ceiling_eff, vis_eff) ==
    IF FLess(ceiling_eff, FInt(500)) \/ FLess(vis_eff, FInt(1)) THEN LIFR
    ELSE IF FLess(ceiling_eff, FInt(1000)) \/ FLess(vis_eff, FInt(3)) THEN IFR
    ELSE IF FLess(ceiling_eff, FInt(3000)) \/ FLess(vis_eff, FInt(5)) THEN MVFR
    ELSE VFR

\* _flight_category_from_metar(metar): a str, None or Raise
FlightCategoryFromMetar(metar) ==
    LET fltcat == FirstPresent(metar, <<"fltCat", "flightCategory", "fltcat">>)
        ceiling == ParseCeilingFt(metar)
        sm == ToFloat(FirstPresent(metar, <<"visib", "vis", "visibility", "visSm">>))
        vis_m == ToFloat(FirstPresent(metar, <<"visibilityMeters", "visMeters", "vis_m">>))
        vis_sm == IF sm = None /\ vis_m # None THEN FDiv(vis_m, METERS_PER_MILE) ELSE sm
    IN  IF fltcat.t = "str" /\ Strip(fltcat.s) # <<>> THEN JStr(Upper(Strip(fltcat.s)))
        ELSE IF ceiling = Raise THEN Raise
        ELSE IF ceiling = None /\ vis_sm = None THEN None
        ELSE JStr(Classify(IF ceiling # None THEN ceiling ELSE FInt(99999),
                           IF vis_sm # None THEN vis_sm ELSE FInt(99)))

(***************************************************************************)
(* Density altitude (sensor.py)                                            *)
(***************************************************************************)
KCLT == <<"K", "C", "L", "T">>
KINT == <<"K", "I", "N", "T">>
KRUQ == <<"K", "R", "U", "Q">>
KJFK == <<"K", "J", "F", "K">>

FIELD_ELEV_FT == KCLT :> 748 @@ KINT :> 969 @@ KRUQ :> 772

\* _pressure_altitude_ft
PressureAltitudeFt(field_elev_ft, altimeter_inhg) ==
    FAdd(field_elev_ft, FMul(FSub(Rat(2992, 100), altimeter_inhg), FInt(1000)))

\* _isa_temp_c_at_alt_ft
IsaTempCAtAltFt(alt_ft) == FSub(FInt(15), FMul(FInt(2), FDiv(alt_ft, FInt(1000))))

\* _density_altitude_ft
DensityAltitudeFt(field_elev_ft, altimeter_inhg, oat_c) ==
    LET pa == PressureAltitudeFt(field_elev_ft, altimeter_inhg)
        isa == IsaTempCAtAltFt(pa)
    IN  FAdd(pa, FMul(FInt(120), FSub(oat_c, isa)))

\* int(round(f)): raises for nan (ValueError) and for an infinity (OverflowError)
IntRound(f) == IF IsFinite(f) THEN [t |-> "int", n |-> RoundDiv(f.num, f.den)] ELSE Raise

\* _metar_item(data, icao) and _taf_item(data, icao), data being coordinator.data or {}
MetarItem(d, icao) == IF d # None /\ icao \in DOMAIN d.metar THEN d.metar[icao] ELSE None
TafItem(d, icao) == IF d # None /\ icao \in DOMAIN d.taf THEN d.taf[icao] ELSE None

\* the variant that takes elevation 0 for a station the table does not hold
DensityAltitudeStationSeaLevel(d, icao) ==
    LET item == MetarItem(d, icao)
        metar == IF Truthy(item) THEN item ELSE EmptyObj
        alt_inhg == AltimInhg(metar)
        temp_c == TempC(metar)
        elev_ft == IF icao \in DOMAIN FIELD_ELEV_FT THEN FIELD_ELEV_FT[icao] ELSE 0
    IN  IF ~Truthy(metar) THEN None
        ELSE IF alt_inhg = None \/ temp_c = None THEN None
        ELSE IntRound(DensityAltitudeFt(FInt(elev_ft), alt_inhg, temp_c))

\* _density_altitude_station(data, icao): an int, None or Raise
DensityAltitudeStation(d, icao) ==
    LET item == MetarItem(d, icao)
        metar == IF Truthy(item) THEN item ELSE EmptyObj
        alt_inhg == AltimInhg(metar)
        temp_c == TempC(metar)
    IN  IF ~Truthy(metar) THEN None
        ELSE IF icao \notin DOMAIN FIELD_ELEV_FT THEN None
        ELSE IF alt_inhg = None \/ temp_c = None THEN None
        ELSE IntRound(DensityAltitudeFt(FInt(FIELD_ELEV_FT[icao]), alt_inhg, temp_c))

(***************************************************************************)
(* Visibility (sensor.py)                                                  *)
(***************************************************************************)
\* the position after the longest run of digits (of whitespace) that starts at
\* position i of s; i itself when there is none
RECURSIVE DigitsEnd(_, _)
DigitsEnd(s, i) == IF i <= Len(s) /\ IsDigit(s[i]) THEN DigitsEnd(s, i + 1) ELSE i
RECURSIVE SpacesEnd(_, _)
SpacesEnd(s, i) == IF i <= Len(s) /\ IsSpace(s[i]) THEN SpacesEnd(s, i + 1) ELSE i

\* \b before position i of s (i = Len(s) + 1: at the end)
WordBoundary(s, i) ==
    LET w(j) == j \in 1..Len(s) /\ IsWordChar(s[j])
    IN  w(i - 1) # w(i)

\* SM\b at position i of s
LitSM(s, i) == i + 1 <= Len(s) /\ s[i] = "S" /\ s[i + 1] = "M" /\ WordBoundary(s, i + 2)

NoMatch == [ok |-> FALSE, whole |-> <<>>, num1 |-> <<>>, den1 |-> <<>>,
            num2 |-> <<>>, den2 |-> <<>>]

\* _VIS_RE matched at position i of s: the groups 2 to 6 (<<>> for a group that
\* took no part). The first alternative is tried with its fraction, then
\* without; the second alternative after it. A run of digits or whitespace can
\* only be followed by the next item when it is taken whole.
VisReMatchAt(s, i) ==
    LET j == IF i <= Len(s) /\ s[i] = "P" THEN i + 1 ELSE i
        k == DigitsEnd(s, j)
        sp == SpacesEnd(s, k)
        n1e == DigitsEnd(s, sp)
        d1e == DigitsEnd(s, n1e + 1)
        frac == /\ k > j /\ sp > k /\ n1e > sp
                /\ n1e <= Len(s) /\ s[n1e] = "/"
                /\ d1e > n1e + 1 /\ LitSM(s, d1e)
        plain == k > j /\ LitSM(s, k)
        n2e == DigitsEnd(s, i)
        d2e == DigitsEnd(s, n2e + 1)
        bare == /\ n2e > i /\ n2e <= Len(s) /\ s[n2e] = "/"
                /\ d2e > n2e + 1 /\ LitSM(s, d2e)
    IN  IF ~WordBoundary(s, i) THEN NoMatch
        ELSE IF frac
        THEN [NoMatch EXCEPT !.ok = TRUE, !.whole = SubSeq(s, j, k - 1),
                             !.num1 = SubSeq(s, sp, n1e - 1),
                             !.den1 = SubSeq(s, n1e + 1, d1e - 1)]
        ELSE IF plain THEN [NoMatch EXCEPT !.ok = TRUE, !.whole = SubSeq(s, j, k - 1)]
        ELSE IF bare
        THEN [NoMatch EXCEPT !.ok = TRUE, !.num2 = SubSeq(s, i, n2e - 1),
                             !.den2 = SubSeq(s, n2e + 1, d2e - 1)]
        ELSE NoMatch

\* _VIS_RE.search(s): the match at the first position that has one
VisReSearch(s) ==
    LET hits == {i \in 1..Len(s) : VisReMatchAt(s, i).ok}
    IN  IF hits = {} THEN NoMatch
        ELSE VisReMatchAt(s, CHOOSE h \in hits : \A g \in hits : h <= g)

\* sub in s
Contains(s, sub) ==
    \E i \in 1..(Len(s) - Len(sub) + 1) : SubSeq(s, i, i + Len(sub) - 1) = sub

CAVOK == <<"C", "A", "V", "O", "K">>

\* float(num) / float(den): Raise stands for ZeroDivisionError
Fraction(num, den) ==
    IF DigitsToInt(den) = 0 THEN Raise ELSE Rat(DigitsToInt(num), DigitsToInt(den))

\* the variant that looks for CAVOK before the SM group
ParseVisCavokFirst(raw) ==
    LET m == VisReSearch(raw)
        vis == IF m.whole # <<>> THEN FInt(DigitsToInt(m.whole)) ELSE FInt(0)
        part == IF m.num1 # <<>> /\ m.den1 # <<>> THEN Fraction(m.num1, m.den1)
                ELSE IF m.num2 # <<>> /\ m.den2 # <<>> THEN Fraction(m.num2, m.den2)
                ELSE FInt(0)
    IN  IF raw = <<>> THEN None
        ELSE IF Contains(raw, CAVOK) THEN Rat(62, 10)
        ELSE IF ~m.ok THEN None
        ELSE IF part = Raise THEN Raise
        ELSE FAdd(vis, part)

\* _parse_vis_from_raw_sm(raw): a float, None or Raise
ParseVisFromRawSm(raw) ==
    LET m == VisReSearch(raw)
        vis == IF m.whole # <<>> THEN FInt(DigitsToInt(m.whole)) ELSE FInt(0)
        part == IF m.num1 # <<>> /\ m.den1 # <<>> THEN Fraction(m.num1, m.den1)
                ELSE IF m.num2 # <<>> /\ m.den2 # <<>> THEN Fraction(m.num2, m.den2)
                ELSE FInt(0)
    IN  IF raw = <<>> THEN None
        ELSE IF ~m.ok THEN (IF Contains(raw, CAVOK) THEN Rat(62, 10) ELSE None)
        ELSE IF part = Raise THEN Raise
        ELSE FAdd(vis, part)

\* _visibility_sm(metar): a float, None or Raise
VisibilitySm(metar) ==
    LET vis_sm == ToFloat(FirstPresent(metar, <<"visib", "vis", "visibility", "visSm">>))
        vis_m == ToFloat(FirstPresent(metar, <<"visibilityMeters", "visMeters", "vis_m">>))
        raw == FirstPresent(metar, <<"rawOb", "rawText", "text", "metar">>)
    IN  IF vis_sm # None THEN vis_sm
        ELSE IF vis_m # None THEN FDiv(vis_m, METERS_PER_MILE)
        ELSE IF raw.t = "str" THEN ParseVisFromRawSm(raw.s)
        ELSE None

(***************************************************************************)
(* Sensor values (sensor.py)                                               *)
(***************************************************************************)
\* _raw_metar(data, icao)
RawMetar(d, icao) ==
    LET m == MetarItem(d, icao)
    IN  IF ~Truthy(m) THEN None ELSE FirstPresent(m, <<"rawOb", "rawText", "text", "metar">>)

\* _raw_taf(data, icao)
RawTaf(d, icao) ==
    LET t == TafItem(d, icao)
    IN  IF ~Truthy(t) THEN None ELSE FirstPresent(t, <<"rawTAF", "rawText", "text", "taf">>)

\* the value_fn of the DESCRIPTIONS entry with this key
ValueFn(key, d, icao) ==
    LET m == MetarItem(d, icao)
    IN  CASE key = "metar_raw" -> RawMetar(d, icao)
          [] key = "taf_raw" -> RawTaf(d, icao)
          [] key = "flight_category" ->
                IF Truthy(m) THEN FlightCategoryFromMetar(m) ELSE None
          [] key = "visibility" -> IF Truthy(m) THEN VisibilitySm(m) ELSE None
          [] key = "ceiling" -> IF Truthy(m) THEN CeilFtFromLayers(m) ELSE None
          [] key = "altimeter" -> IF Truthy(m) THEN AltimInhg(m) ELSE None
          [] key = "temp" -> IF Truthy(m) THEN TempC(m) ELSE None
          [] key = "density_altitude" -> DensityAltitudeStation(d, icao)

\* the attrs_fn of the DESCRIPTIONS entry with this key ({} when it has none)
AttrsFn(key, d, icao) ==
    LET item == IF key = "metar_raw" THEN MetarItem(d, icao)
                ELSE IF key = "taf_raw" THEN TafItem(d, icao)
                ELSE None
    IN  IF Truthy(item) THEN item ELSE EmptyObj

MetricKeys ==
    {"metar_raw", "taf_raw", "flight_category", "ceiling", "altimeter", "temp",
     "density_altitude"}

(***************************************************************************)
(* Fetch and snapshot assembly (coordinator.py)                            *)
(***************************************************************************)
Endpoints == {"metar", "taf"}

\* the first of the keys under which the payload holds a list, else the empty list
RECURSIVE FirstList(_, _)
FirstList(payload, keys) ==
    IF keys = <<>> THEN <<>>
    ELSE LET val == Get(payload, Head(keys))
         IN  IF val.t = "list" THEN val.items ELSE FirstList(payload, Tail(keys))

\* the variant that looks under "data" only
NormalizeDataOnly(endpoint, payload) ==
    IF payload.t = "list" THEN payload.items
    ELSE IF payload.t = "obj" THEN FirstList(payload, <<"data">>)
    ELSE <<>>

\* the normalisation of a 200 payload: a list, or a dict wrapping one
Normalize(endpoint, payload) ==
    IF payload.t = "list" THEN payload.items
    ELSE IF payload.t = "obj" THEN FirstList(payload, <<"data", "results", endpoint>>)
    ELSE <<>>

\* the variant without the 204 branch
FetchNoContentFails(endpoint, resp) ==
    IF resp.exc = "timeout" THEN [ok |-> FALSE, recs |-> <<>>]
    ELSE IF resp.status # 200 THEN [ok |-> FALSE, recs |-> <<>>]
    ELSE IF resp.exc = "json" THEN [ok |-> FALSE, recs |-> <<>>]
    ELSE [ok |-> TRUE, recs |-> Normalize(endpoint, resp.payload)]

\* _fetch(endpoint, ids) for a response [status, exc, payload]: exc is "timeout"
\* when the request raises, "json" when the body does not parse
Fetch(endpoint, resp) ==
    IF resp.exc = "timeout" THEN [ok |-> FALSE, recs |-> <<>>]
    ELSE IF resp.status = 204 THEN [ok |-> TRUE, recs |-> <<>>]
    ELSE IF resp.status # 200 THEN [ok |-> FALSE, recs |-> <<>>]
    ELSE IF resp.exc = "json" THEN [ok |-> FALSE, recs |-> <<>>]
    ELSE [ok |-> TRUE, recs |-> Normalize(endpoint, resp.payload)]

EmptyMap == [x \in {} |-> None]

\* the variant that reads icaoId only
RecordIdIcaoOnly(m) == Get(m, "icaoId")

\* m.get("icaoId") or m.get("stationId")
RecordId(m) ==
    LET a == Get(m, "icaoId")
    IN  IF Truthy(a) THEN a ELSE Get(m, "stationId")

\* one dict comprehension of the snapshot: [ok, map]; ok is FALSE when it raises
\* (a record without .get, an identifier without .upper)
RECURSIVE KeyedByStation(_)
KeyedByStation(recs) ==
    IF recs = <<>> THEN [ok |-> TRUE, map |-> EmptyMap]
    ELSE LET n == Len(recs)
             m == recs[n]
             before == KeyedByStation(SubSeq(recs, 1, n - 1))
         IN  IF ~before.ok \/ m.t # "obj" THEN [ok |-> FALSE, map |-> EmptyMap]
             ELSE IF ~Truthy(RecordId(m)) THEN before
             ELSE IF RecordId(m).t # "str" THEN [ok |-> FALSE, map |-> EmptyMap]
             ELSE [ok |-> TRUE, map |-> (Upper(RecordId(m).s) :> m) @@ before.map]

\* the dict the refresh body returns
Snapshot(stations, metars, tafs) ==
    LET mm == KeyedByStation(metars)
        tm == KeyedByStation(tafs)
    IN  IF mm.ok /\ tm.ok
        THEN [ok |-> TRUE, snap |-> [icaos |-> stations, metar |-> mm.map, taf |-> tm.map]]
        ELSE [ok |-> FALSE, snap |-> None]

\* refresh cycles a run goes through
MaxCycles == 2

NoResp == [status |-> 0, exc |-> "none", payload |-> None]
NoTask == [st |-> "idle", recs |-> <<>>, resp |-> NoResp]

\* the refresh body up to asyncio.gather: both _fetch tasks are started
StartRefresh ==
    /\ pc = "idle"
    /\ cycle < MaxCycles
    /\ pc' = "gathering"
    /\ cycle' = cycle + 1
    /\ tasks' = [e \in Endpoints |-> [NoTask EXCEPT !.st = "pending"]]
    /\ UNCHANGED <<icaos, data, outcome, lastRead, flow, bulk>>

\* one _fetch task runs to its end on the response it receives
FetchDone(e, resp) ==
    /\ tasks[e].st = "pending"
    /\ LET r == Fetch(e, resp)
       IN  tasks' = [tasks EXCEPT ![e] =
                        [st |-> IF r.ok THEN "done" ELSE "failed", recs |-> r.recs,
                         resp |-> resp]]
    /\ UNCHANGED <<icaos, data, pc, cycle, outcome, lastRead, flow, bulk>>

\* gather hands the first exception to the refresh body, which raises UpdateFailed;
\* the other task is left to run and its result is dropped
GatherRaises ==
    /\ pc = "gathering"
    /\ \E e \in Endpoints : tasks[e].st = "failed"
    /\ pc' = "idle"
    /\ outcome' = [outcome EXCEPT !.last = "UpdateFailed"]
    /\ UNCHANGED <<icaos, data, tasks, cycle, lastRead, flow, bulk>>

\* the variant that gathers with return_exceptions: it returns once no task is
\* pending and takes a failed task's result as the empty list
GatherReturnsPartial ==
    /\ pc = "gathering"
    /\ \A e \in Endpoints : tasks[e].st \in {"done", "failed"}
    /\ pc' = "idle"
    /\ LET r == Snapshot(icaos, tasks["metar"].recs, tasks["taf"].recs)
       IN  IF r.ok
           THEN /\ data' = r.snap
                /\ outcome' = [last |-> "ok", okCycle |-> cycle]
           ELSE /\ data' = data
                /\ outcome' = [outcome EXCEPT !.last = "error"]
    /\ UNCHANGED <<icaos, tasks, cycle, lastRead, flow, bulk>>

\* the variant that updates the stored snapshot in place: a map that comes out
\* empty keeps the entries of the previous snapshot
GatherReturnsMerging ==
    /\ pc = "gathering"
    /\ \A e \in Endpoints : tasks[e].st = "done"
    /\ pc' = "idle"
    /\ LET r == Snapshot(icaos, tasks["metar"].recs, tasks["taf"].recs)
           keep(new, old) == IF DOMAIN new = {} THEN old ELSE new
       IN  IF r.ok
           THEN /\ data' = IF data = None THEN r.snap
                           ELSE [icaos |-> icaos,
                                 metar |-> keep(r.snap.metar, data.metar),
                                 taf |-> keep(r.snap.taf, data.taf)]
                /\ outcome' = [last |-> "ok", okCycle |-> cycle]
           ELSE /\ data' = data
                /\ outcome' = [outcome EXCEPT !.last = "error"]
    /\ UNCHANGED <<icaos, tasks, cycle, lastRead, flow, bulk>>

\* both tasks returned: the refresh body builds the snapshot and returns it, and
\* the coordinator stores what it returned as coordinator.data; an exception of
\* the assembly leaves coordinator.data as it was
GatherReturns ==
    /\ pc = "gathering"
    /\ \A e \in Endpoints : tasks[e].st = "done"
    /\ pc' = "idle"
    /\ LET r == Snapshot(icaos, tasks["metar"].recs, tasks["taf"].recs)
       IN  IF r.ok
           THEN /\ data' = r.snap
                /\ outcome' = [last |-> "ok", okCycle |-> cycle]
           ELSE /\ data' = data
                /\ outcome' = [outcome EXCEPT !.last = "error"]
    /\ UNCHANGED <<icaos, tasks, cycle, lastRead, flow, bulk>>

\* the times stamped on the records of a snapshot
StampsOf(d) ==
    IF d = None THEN [metar |-> {}, taf |-> {}]
    ELSE [metar |-> {Get(d.metar[k], "obsTime") : k \in DOMAIN d.metar},
          taf |-> {Get(d.taf[k], "issueTime") : k \in DOMAIN d.taf}]

\* AeroWeatherSensor.native_value and extra_state_attributes of the sensor of
\* station icao with this key, on coordinator.data or {}
Read(icao, key) ==
    /\ lastRead' = [icao |-> icao, key |-> key,
                    value |-> ValueFn(key, data, icao),
                    attrs |-> AttrsFn(key, data, icao),
                    seen |-> StampsOf(data)]
    /\ UNCHANGED <<icaos, data, pc, tasks, cycle, outcome, flow, bulk>>

NoRead ==
    [icao |-> <<>>, key |-> "", value |-> None, attrs |-> EmptyObj,
     seen |-> [metar |-> {}, taf |-> {}]]
NoFlow == [current |-> [icaos |-> <<>>, scan_interval |-> None], step |-> "none",
           result |-> "none", pieces |-> <<>>, text |-> <<>>, scan |-> None,
           errors |-> "", entry |-> None]
\* no call of fetch_notams_bulk made
NoBulk == [pc |-> "none", icaos |-> <<>>, clean_icaos |-> <<>>, st |-> <<>>,
           got |-> <<>>, first |-> 0, results |-> EmptyMap, ret |-> None,
           exc |-> "none"]

(***************************************************************************)
(* The provider's responses and the coordinator's specification            *)
(***************************************************************************)
kint == <<"k", "i", "n", "t">>

\* the field holding a record's time and the one holding its raw text
TimeField(e) == IF e = "metar" THEN "obsTime" ELSE "issueTime"
RawField(e) == IF e = "metar" THEN "rawOb" ELSE "rawTAF"

\* a record of endpoint e answered in cycle k, without a station identifier
Anonymous(e, k) == JObj(RawField(e) :> JStr(<<"R">>) @@ TimeField(e) :> JNum(k, 1))
\* the same with a station identifier under idKey
Report(e, idKey, id, k) == JObj((idKey :> JStr(id)) @@ Anonymous(e, k).o)

RecordLists(e, k) ==
    {<<Report(e, "icaoId", KCLT, k)>>,
     <<Report(e, "icaoId", KCLT, k), Anonymous(e, k), Report(e, "stationId", kint, k)>>,
     <<Report(e, "icaoId", KJFK, k)>>,
     <<JNum(7, 1)>>}

Responses(e, k) ==
    {[status |-> 200, exc |-> "none", payload |-> JList(L)] : L \in RecordLists(e, k)}
    \cup {[status |-> 200, exc |-> "none",
           payload |-> JObj("data" :> JList(<<Report(e, "icaoId", KCLT, k)>>))],
          [status |-> 200, exc |-> "none", payload |-> JStr(<<"x">>)],
          [status |-> 204, exc |-> "none", payload |-> None],
          [status |-> 500, exc |-> "none", payload |-> None],
          [status |-> 0, exc |-> "timeout", payload |-> None]}

ConfiguredIcaos == <<KCLT, KINT>>

Init ==
    /\ icaos = ConfiguredIcaos
    /\ data = None
    /\ pc = "idle"
    /\ tasks = [e \in Endpoints |-> NoTask]
    /\ cycle = 0
    /\ outcome = [last |-> "none", okCycle |-> 0]
    /\ lastRead = NoRead
    /\ flow = NoFlow
    /\ bulk = NoBulk

Next ==
    \/ StartRefresh
    \/ \E e \in Endpoints : \E resp \in Responses(e, cycle) : FetchDone(e, resp)
    \/ GatherRaises
    \/ GatherReturns
    \/ \E icao \in Range(icaos) : \E key \in {"metar_raw", "taf_raw"} : Read(icao, key)

Spec == Init /\ [][Next]_vars

(***************************************************************************)
(* The sensors read over a bounded set of METAR reports                    *)
(***************************************************************************)
\* cloud layers a report lists at most
MaxLayers == 2

NoFields == [x \in {} |-> None]

Layer(cover, base) == JObj("cover" :> JStr(cover) @@ "base_ft_agl" :> base)

Layers ==
    {Layer(BKN, JNum(499, 1)), Layer(BKN, JNum(500, 1)), Layer(OVC, JNum(999, 1)),
     Layer(OVC, JNum(1000, 1)), Layer(VV, JNum(2999, 1)), Layer(BKN, JNum(3000, 1)),
     Layer(BKN, None), Layer(FEW, JNum(300, 1)), JObj("cover" :> JStr(CLR))}

LayerLists == UNION {[1..k -> Layers] : k \in 0..MaxLayers}

CloudFields == {NoFields, "clouds" :> None} \cup {"clouds" :> JList(L) : L \in LayerLists}

\* cloud fields that are not a list of layer objects
BrokenCloudFields ==
    {"clouds" :> JStr(BKN), "clouds" :> JNum(3, 1), "clouds" :> JList(<<JStr(BKN)>>),
     "clouds" :> JList(<<Layer(BKN, JNum(800, 1)), None>>),
     "clouds" :> JList(<<Layer(BKN, JStr(<<"9", "0", "0">>)), Layer(BKN, JStr(<<"x">>))>>)}

\* visibility fields, each with the statute miles num/den the structured and
\* meters fields give (None: they give none)
VisibilityCases ==
    {[o |-> NoFields, mi |-> None],
     [o |-> "visib" :> JNum(5, 1), mi |-> [num |-> 5, den |-> 1]],
     [o |-> "visib" :> JNum(499, 100), mi |-> [num |-> 499, den |-> 100]],
     [o |-> "visib" :> JNum(3, 1), mi |-> [num |-> 3, den |-> 1]],
     [o |-> "visib" :> JNum(1, 1), mi |-> [num |-> 1, den |-> 1]],
     [o |-> "visib" :> JNum(3, 4), mi |-> [num |-> 3, den |-> 4]],
     [o |-> "visib" :> JStr(<<"1", "0">>), mi |-> [num |-> 10, den |-> 1]],
     [o |-> "visib" :> JStr(<<"1", "0", "+">>), mi |-> None],
     [o |-> "visib" :> None @@ "vis" :> JNum(299, 100), mi |-> [num |-> 299, den |-> 100]],
     [o |-> "visMeters" :> JNum(1609344, 1000), mi |-> [num |-> 1, den |-> 1]],
     [o |-> "visibilityMeters" :> JNum(1609, 1), mi |-> [num |-> 201125, den |-> 201168]],
     [o |-> "visib" :> JStr(<<"x">>) @@ "vis_m" :> JNum(9000, 1),
      mi |-> [num |-> 15625, den |-> 2794]]}
VisibilityFields == {c.o : c \in VisibilityCases}

CategoryFields ==
    {"fltCat" :> JStr(<<" ", "i", "f", "r", " ">>),
     "fltCat" :> None @@ "flightCategory" :> JStr(MVFR),
     "fltCat" :> JStr(<<" ">>),
     "fltcat" :> JNum(1, 1)}

\* altimeter fields, each with the inHg hundredths it decodes to (-1: it does
\* not decode, -2: it decodes to a float that is not finite)
AltimeterCases ==
    {[o |-> NoFields, inhg100 |-> -1],
     [o |-> "altim" :> JStr(<<"A", "3", "0", "1", "1">>), inhg100 |-> 3011],
     [o |-> "altim" :> JStr(<<" ", "q", "1", "0", "1", "3">>), inhg100 |-> 2991],
     [o |-> "altim" :> JNum(1013, 1), inhg100 |-> 2991],
     [o |-> "altimHg" :> JNum(2992, 100), inhg100 |-> 2992],
     [o |-> "altim" :> None @@ "qnh" :> JStr(<<"3", "0", ".", "0", "5">>), inhg100 |-> 3005],
     [o |-> "altimeter" :> JStr(<<"a", "b", "c">>), inhg100 |-> -1],
     [o |-> "altim" :> JList(<<>>), inhg100 |-> -1],
     [o |-> "altim" :> JStr(<<"n", "a", "n">>), inhg100 |-> -2]}

\* temperature fields, each with the float it decodes to (None: it does not decode)
TemperatureCases ==
    {[o |-> NoFields, c |-> None],
     [o |-> "temp" :> JNum(30, 1), c |-> [num |-> 30, den |-> 1]],
     [o |-> "temp" :> JNum(0, 1), c |-> [num |-> 0, den |-> 1]],
     [o |-> "temp" :> None @@ "tempC" :> JNum(-55, 10), c |-> [num |-> -11, den |-> 2]],
     [o |-> "temp" :> JStr(<<"1", "2", ".", "5">>), c |-> [num |-> 25, den |-> 2]],
     [o |-> "temp" :> JStr(<<"M", "0", "5">>), c |-> None],
     [o |-> "temperature" :> JStr(<<"i", "n", "f">>), c |-> Inf]}

\* the METAR reports of station id that the sensors are read over: cloud and
\* visibility fields for KCLT, altimeter and temperature fields for every station
Reports(id) ==
    LET base == "icaoId" :> JStr(id) @@ "rawOb" :> JStr(<<"R">>)
    IN  {JObj(c @@ v @@ base) : c \in IF id = KCLT THEN CloudFields ELSE {},
                                v \in VisibilityFields}
        \cup {JObj(f @@ c @@ base) : f \in IF id = KCLT THEN CategoryFields ELSE {},
                                     c \in {NoFields, "clouds" :> JList(<<Layer(OVC, JNum(999, 1))>>)}}
        \cup {JObj(c @@ v @@ base) : c \in IF id = KCLT THEN BrokenCloudFields ELSE {},
                                     v \in {NoFields, "visib" :> JNum(5, 1)}}
        \cup {JObj(a.o @@ t.o @@ base) : a \in AltimeterCases, t \in TemperatureCases}

SensorIcaos == <<KCLT, KJFK>>

\* coordinator.data is one of: nothing yet, a snapshot without reports, a snapshot
\* with the report of one station
InitSensors ==
    /\ icaos = SensorIcaos
    /\ data \in {None, [icaos |-> SensorIcaos, metar |-> EmptyMap, taf |-> EmptyMap]}
                \cup UNION {{[icaos |-> SensorIcaos, metar |-> id :> r, taf |-> EmptyMap] :
                                r \in Reports(id)} : id \in {KCLT, KJFK}}
    /\ pc = "idle"
    /\ tasks = [e \in Endpoints |-> NoTask]
    /\ cycle = 0
    /\ outcome = [last |-> "none", okCycle |-> 0]
    /\ lastRead = NoRead
    /\ flow = NoFlow
    /\ bulk = NoBulk

NextSensors == \E icao \in Range(icaos) : \E key \in MetricKeys : Read(icao, key)

SpecSensors == InitSensors /\ [][NextSensors]_vars

(***************************************************************************)
(* The visibility sensor read over reports with each source of visibility  *)
(***************************************************************************)
\* structured statute-mile fields and meters fields, each with the miles
\* num/den it gives (None: it gives none)
StructuredCases ==
    {[o |-> NoFields, mi |-> None],
     [o |-> "visib" :> JStr(<<"1", "0", "+">>), mi |-> None],
     [o |-> "visib" :> None @@ "vis" :> JNum(5, 1), mi |-> [num |-> 5, den |-> 1]]}
MetersCases ==
    {[o |-> NoFields, mi |-> None],
     [o |-> "visMeters" :> JStr(<<"x">>), mi |-> None],
     [o |-> "visibilityMeters" :> JNum(1609344, 1000), mi |-> [num |-> 1, den |-> 1]],
     [o |-> "vis_m" :> JNum(8000, 1), mi |-> [num |-> 62500, den |-> 12573]]}

\* raw text fields, each with the miles num/den of its SM group (None: it has
\* none; Raise: a fraction over zero) and whether its text contains CAVOK
RawTextCases ==
    {[o |-> NoFields, sm |-> None, cavok |-> FALSE],
     [o |-> "rawOb" :> JNum(5, 1), sm |-> None, cavok |-> FALSE],
     [o |-> "rawOb" :> JStr(<<>>), sm |-> None, cavok |-> FALSE],
     [o |-> "rawOb" :> JStr(<<"K", " ", "B", "K", "N", "0", "0", "8">>),
      sm |-> None, cavok |-> FALSE],
     [o |-> "rawOb" :> JStr(<<"K", " ", "1", "0", "S", "M", " ", "X">>),
      sm |-> [num |-> 10, den |-> 1], cavok |-> FALSE],
     [o |-> "rawOb" :> None @@ "rawText" :> JStr(<<"P", "6", "S", "M">>),
      sm |-> [num |-> 6, den |-> 1], cavok |-> FALSE],
     [o |-> "rawOb" :> JStr(<<"K", " ", "1", " ", "1", "/", "2", "S", "M", " ", "X">>),
      sm |-> [num |-> 3, den |-> 2], cavok |-> FALSE],
     [o |-> "text" :> JStr(<<"3", "/", "4", "S", "M">>),
      sm |-> [num |-> 3, den |-> 4], cavok |-> FALSE],
     [o |-> "rawOb" :> JStr(<<"K", " ", "C", "A", "V", "O", "K", " ", "X">>),
      sm |-> None, cavok |-> TRUE],
     [o |-> "rawOb" :> JStr(<<"C", "A", "V", "O", "K", " ", "2", "S", "M">>),
      sm |-> [num |-> 2, den |-> 1], cavok |-> TRUE],
     [o |-> "metar" :> JStr(<<"1", "/", "0", "S", "M">>), sm |-> Raise, cavok |-> FALSE]}

\* the METAR reports of KCLT the visibility sensor is read over
VisibilityReports ==
    {JObj(s.o @@ m.o @@ r.o @@ "icaoId" :> JStr(KCLT)) :
        s \in StructuredCases, m \in MetersCases, r \in RawTextCases}

InitVisibility ==
    /\ icaos = SensorIcaos
    /\ data \in {[icaos |-> SensorIcaos, metar |-> KCLT :> r, taf |-> EmptyMap] :
                    r \in VisibilityReports}
    /\ pc = "idle"
    /\ tasks = [e \in Endpoints |-> NoTask]
    /\ cycle = 0
    /\ outcome = [last |-> "none", okCycle |-> 0]
    /\ lastRead = NoRead
    /\ flow = NoFlow
    /\ bulk = NoBulk

NextVisibility == \E icao \in Range(icaos) : Read(icao, "visibility")

SpecVisibility == InitVisibility /\ [][NextVisibility]_vars

(***************************************************************************)
(* _fetch over a wider set of payload shapes                               *)
(***************************************************************************)
OtherEndpoint(e) == IF e = "metar" THEN "taf" ELSE "metar"

\* the shapes a payload that holds the list L, or no list, comes in
PayloadShapes(e, L) ==
    {JList(L),
     JObj("data" :> JList(L)),
     JObj("results" :> JList(L)),
     JObj(e :> JList(L)),
     JObj("data" :> JStr(<<"x">>) @@ "results" :> JList(L)),
     JObj("data" :> None @@ "results" :> EmptyObj @@ e :> JList(L)),
     JObj("data" :> JList(L) @@ "results" :> JList(<<Anonymous(e, 0)>>)),
     JObj(OtherEndpoint(e) :> JList(L)),
     JObj("items" :> JList(L)),
     JObj("data" :> JObj(e :> JList(L))),
     EmptyObj, JStr(<<"x">>), JNum(7, 1), None}

WideResponses(e) ==
    UNION {{[status |-> 200, exc |-> "none", payload |-> p] : p \in PayloadShapes(e, L)} :
              L \in RecordLists(e, 1) \cup {<<>>}}
    \cup {[status |-> 200, exc |-> "json", payload |-> None],
          [status |-> 204, exc |-> "none", payload |-> None],
          [status |-> 404, exc |-> "none", payload |-> JList(<<>>)],
          [status |-> 0, exc |-> "timeout", payload |-> None]}

\* a refresh cycle that has started its two tasks
InitFetch ==
    /\ icaos = ConfiguredIcaos
    /\ data = None
    /\ pc = "gathering"
    /\ tasks = [e \in Endpoints |-> [NoTask EXCEPT !.st = "pending"]]
    /\ cycle = 1
    /\ outcome = [last |-> "none", okCycle |-> 0]
    /\ lastRead = NoRead
    /\ flow = NoFlow
    /\ bulk = NoBulk

NextFetch == \E e \in Endpoints : \E resp \in WideResponses(e) : FetchDone(e, resp)

SpecFetch == InitFetch /\ [][NextFetch]_vars

(***************************************************************************)
(* Configuration flows (config_flow.py)                                    *)
(***************************************************************************)
\* str.replace(old, new) for single characters
Replace(s, old, new) == [i \in DOMAIN s |-> IF s[i] = old THEN new ELSE s[i]]

\* str.split(sep) for a single character
RECURSIVE Split(_, _)
Split(s, sep) ==
    IF \A i \in DOMAIN s : s[i] # sep THEN <<s>>
    ELSE LET i == CHOOSE j \in DOMAIN s : s[j] = sep /\ \A h \in 1..(j - 1) : s[h] # sep
         IN  <<SubSeq(s, 1, i - 1)>> \o Split(SubSeq(s, i + 1, Len(s)), sep)

\* [s.strip().upper() for s in parts if s.strip()]
RECURSIVE StripUpperNonEmpty(_)
StripUpperNonEmpty(parts) ==
    IF parts = <<>> THEN <<>>
    ELSE IF Strip(Head(parts)) # <<>>
    THEN <<Upper(Strip(Head(parts)))>> \o StripUpperNonEmpty(Tail(parts))
    ELSE StripUpperNonEmpty(Tail(parts))

\* the variant that splits on "," alone
ParseIcaosCommaOnly(text) == StripUpperNonEmpty(Split(text, ","))

\* the station list both steps build from user_input[CONF_ICAOS]
ParseIcaos(text) == StripUpperNonEmpty(Split(Replace(text, ";", ","), ","))

IsIcaoChar(c) == c \in Range(UpperCase) \cup Range(Digits)
\* ICAO_RE.match(s) for ^[A-Z0-9]{4}$; $ also matches before a final newline
IcaoReMatch(s) ==
    /\ Len(s) >= 4
    /\ \A i \in 1..4 : IsIcaoChar(s[i])
    /\ Len(s) = 4 \/ (Len(s) = 5 /\ s[5] = "\n")

\* a < b for str: the first differing character decides, else the length
RECURSIVE StrLess(_, _)
StrLess(a, b) ==
    IF b = <<>> THEN FALSE
    ELSE IF a = <<>> THEN TRUE
    ELSE IF Head(a) # Head(b) THEN Ord(Head(a)) < Ord(Head(b))
    ELSE StrLess(Tail(a), Tail(b))

\* sorted(S) for a set of str
RECURSIVE Sorted(_)
Sorted(S) ==
    IF S = {} THEN <<>>
    ELSE LET m == CHOOSE x \in S : \A y \in S : x = y \/ StrLess(x, y)
         IN  <<m>> \o Sorted(S \ {m})

\* not icaos or any(not ICAO_RE.match(i) for i in icaos)
Rejected(stations) == stations = <<>> \/ \E i \in DOMAIN stations : ~IcaoReMatch(stations[i])

DEFAULT_SCAN_INTERVAL == [t |-> "DEFAULT_SCAN_INTERVAL"]

\* async_step_user and async_step_init with a user_input, on the form the step
\* showed: the form again with the invalid_icao error, or the entry; fallback is
\* the scan interval used when user_input has none. (A submission that follows
\* a rejected one is the same call; here it goes through ShowForm.)
Submit(step, pieces, text, scan, fallback) ==
    LET stations == ParseIcaos(text)
    IN  /\ flow.step = step
        /\ flow.result = "form"
        /\ flow.errors = ""
        /\ flow' = [flow EXCEPT
                      !.pieces = pieces, !.text = text, !.scan = scan,
                      !.result = IF Rejected(stations) THEN "form" ELSE "create_entry",
                      !.errors = IF Rejected(stations) THEN "invalid_icao" ELSE "",
                      !.entry = IF Rejected(stations) THEN None
                                ELSE [t |-> "entry", icaos |-> Sorted(Range(stations)),
                                      scan_interval |-> IF scan = None THEN fallback ELSE scan]]
        /\ UNCHANGED <<icaos, data, pc, tasks, cycle, outcome, lastRead, bulk>>

\* async_step_user(user_input)
SubmitUser(pieces, text, scan) == Submit("user", pieces, text, scan, DEFAULT_SCAN_INTERVAL)

\* async_step_init(user_input) of the options flow of the entry in flow.current
SubmitInit(pieces, text, scan) ==
    Submit("init", pieces, text, scan,
           IF flow.current.scan_interval # None THEN flow.current.scan_interval
           ELSE DEFAULT_SCAN_INTERVAL)

\* either step without a user_input: the empty form
ShowForm(step) ==
    /\ flow' = [flow EXCEPT !.step = step, !.result = "form", !.pieces = <<>>,
                            !.text = <<>>, !.scan = None, !.errors = "", !.entry = None]
    /\ UNCHANGED <<icaos, data, pc, tasks, cycle, outcome, lastRead, bulk>>

\* pieces a submission joins at most
MaxPieces == 2

Pieces ==
    {KCLT, <<" ", "k", "i", "n", "t", "\t">>, <<"k", "c", "l", "t">>, <<"E", "G", "1", "1">>,
     <<"K", "C">>, <<"K", "-", "L", "T">>, <<>>, <<" ">>}

\* the texts that join these pieces with "," or ";"
RECURSIVE Joined(_)
Joined(ps) ==
    IF Len(ps) = 1 THEN {ps[1]}
    ELSE {ps[1] \o <<sep>> \o rest : sep \in {",", ";"}, rest \in Joined(Tail(ps))}

ScanInputs == {None, [t |-> "int", n |-> 60]}

InitFlow ==
    /\ icaos = <<>>
    /\ data = None
    /\ pc = "idle"
    /\ tasks = [e \in Endpoints |-> NoTask]
    /\ cycle = 0
    /\ outcome = [last |-> "none", okCycle |-> 0]
    /\ lastRead = NoRead
    /\ flow \in {[NoFlow EXCEPT !.current = [icaos |-> <<KCLT>>, scan_interval |-> si]] :
                    si \in {None, [t |-> "int", n |-> 900]}}
    /\ bulk = NoBulk

NextFlow ==
    \/ \E k \in 1..MaxPieces : \E ps \in [1..k -> Pieces] : \E text \in Joined(ps) :
         \E scan \in ScanInputs : SubmitUser(ps, text, scan)
    \/ \E k \in 1..MaxPieces : \E ps \in [1..k -> Pieces] : \E text \in Joined(ps) :
         \E scan \in ScanInputs : SubmitInit(ps, text, scan)
    \/ \E step \in {"user", "init"} : ShowForm(step)

SpecFlow == InitFlow /\ [][NextFlow]_vars

(***************************************************************************)
(* The snapshot assembly over records with and without identifiers         *)
(***************************************************************************)
\* records an answer lists at most
MaxRecords == 2

kclt == <<"k", "c", "l", "t">>

\* records of endpoint e, each with the station it belongs to (<<>>: none)
IdCases(e) ==
    LET rec(ids) == JObj(ids @@ Anonymous(e, 1).o)
    IN  {[rec |-> rec("icaoId" :> JStr(KCLT)), key |-> KCLT],
         [rec |-> rec("icaoId" :> JStr(kint) @@ "stationId" :> JStr(KRUQ)), key |-> KINT],
         [rec |-> rec("icaoId" :> JStr(<<>>) @@ "stationId" :> JStr(kclt)), key |-> KCLT],
         [rec |-> rec("icaoId" :> None @@ "stationId" :> JStr(KRUQ)), key |-> KRUQ],
         [rec |-> rec("stationId" :> JStr(kint)), key |-> KINT],
         [rec |-> rec(NoFields), key |-> <<>>],
         [rec |-> rec("icaoId" :> JStr(<<>>) @@ "stationId" :> None), key |-> <<>>]}

\* the provider's answers: every list of at most MaxRecords of these records to
\* a METAR request, two of them to a TAF request, or an error
AssemblyResponses(e) ==
    LET recs == {c.rec : c \in IdCases(e)}
        lists == IF e = "metar" THEN UNION {[1..k -> recs] : k \in 0..MaxRecords}
                 ELSE {<<>>, <<JObj("stationId" :> JStr(kint) @@ Anonymous(e, 1).o),
                              Anonymous(e, 1)>>}
    IN  {[status |-> 200, exc |-> "none", payload |-> JList(L)] : L \in lists}
        \cup {[status |-> 500, exc |-> "none", payload |-> None]}

NextAssembly ==
    \/ \E e \in Endpoints : \E resp \in AssemblyResponses(e) : FetchDone(e, resp)
    \/ GatherRaises
    \/ GatherReturns

\* one refresh cycle from the start of its two tasks
SpecAssembly == InitFetch /\ [][NextAssembly]_vars

(***************************************************************************)
(* The NOTAM fetcher (notams.py)                                           *)
(***************************************************************************)
\* [x for x in val if isinstance(x, dict)]
OnlyDicts(xs) == SelectSeq(xs, LAMBDA x : x.t = "obj")

\* the loop of _extract_list over the wrapper keys: [ok, recs]
RECURSIVE ExtractFrom(_, _)
ExtractFrom(payload, keys) ==
    IF keys = <<>> THEN [ok |-> FALSE, recs |-> <<>>]
    ELSE LET val == Get(payload, Head(keys))
         IN  IF val.t = "list" THEN [ok |-> TRUE, recs |-> OnlyDicts(val.items)]
             ELSE ExtractFrom(payload, Tail(keys))

\* _extract_list(payload): ok is FALSE when it raises ValueError
ExtractList(payload) ==
    IF payload.t = "list" THEN [ok |-> TRUE, recs |-> OnlyDicts(payload.items)]
    ELSE IF payload.t = "obj"
         THEN ExtractFrom(payload, <<"notams", "items", "data", "results">>)
    ELSE [ok |-> FALSE, recs |-> <<>>]

\* fetch_notams_for_icao(session, icao, cfg) on the response the request gets:
\* [ok, recs, exc]. raise_for_status raises on a status of 400 and above.
FetchNotamsForIcao(icao, resp) ==
    LET code == Upper(Strip(icao))
        failed(kind) == [ok |-> FALSE, recs |-> <<>>, exc |-> kind]
    IN  IF Len(code) # 4 THEN failed("ValueError")
        ELSE IF resp.exc = "timeout" THEN failed("RuntimeError")
        ELSE IF resp.status >= 400 THEN failed("RuntimeError")
        ELSE IF resp.exc = "json" THEN failed("RuntimeError")
        ELSE LET notams == ExtractList(resp.payload)
             IN  IF notams.ok THEN [ok |-> TRUE, recs |-> notams.recs, exc |-> "none"]
                 ELSE failed("ValueError")

\* [i.strip().upper() for i in (icaos or []) if i and i.strip()]
RECURSIVE CleanIcaos(_)
CleanIcaos(list) ==
    IF list = <<>> THEN <<>>
    ELSE LET i == Head(list)
         IN  (IF i # <<>> /\ Strip(i) # <<>> THEN <<Upper(Strip(i))>> ELSE <<>>)
             \o CleanIcaos(Tail(list))

\* fetch_notams_bulk(session, icaos, cfg) up to asyncio.gather: one _one task
\* per cleaned code
FetchNotamsBulk(list) ==
    /\ bulk.pc = "none"
    /\ LET clean_icaos == CleanIcaos(list)
       IN  bulk' = [NoBulk EXCEPT
                      !.pc = "gathering", !.icaos = list, !.clean_icaos = clean_icaos,
                      !.st = [n \in 1..Len(clean_icaos) |-> "pending"],
                      !.got = [n \in 1..Len(clean_icaos) |-> NoResp]]
    /\ UNCHANGED <<icaos, data, pc, tasks, cycle, outcome, lastRead, flow>>

\* the variant of _one that catches the failure and stores the empty list
OneSwallowing(n, resp) ==
    /\ bulk.pc \in {"gathering", "raised"}
    /\ n \in DOMAIN bulk.st
    /\ bulk.st[n] = "pending"
    /\ LET i == bulk.clean_icaos[n]
           r == FetchNotamsForIcao(i, resp)
       IN  bulk' = [bulk EXCEPT !.st[n] = "done", !.got[n] = resp,
                                !.results = (i :> r.recs) @@ bulk.results]
    /\ UNCHANGED <<icaos, data, pc, tasks, cycle, outcome, lastRead, flow>>

\* task n, _one(clean_icaos[n]), runs to its end on the response it receives:
\* it stores the records under its code, or fails; gather keeps the first
\* failure, and the other tasks are left to run
One(n, resp) ==
    /\ bulk.pc \in {"gathering", "raised"}
    /\ n \in DOMAIN bulk.st
    /\ bulk.st[n] = "pending"
    /\ LET i == bulk.clean_icaos[n]
           r == FetchNotamsForIcao(i, resp)
       IN  IF r.ok
           THEN bulk' = [bulk EXCEPT !.st[n] = "done", !.got[n] = resp,
                                     !.results = (i :> r.recs) @@ bulk.results]
           ELSE bulk' = [bulk EXCEPT !.st[n] = r.exc, !.got[n] = resp,
                                     !.first = IF bulk.first = 0 THEN n ELSE bulk.first]
    /\ UNCHANGED <<icaos, data, pc, tasks, cycle, outcome, lastRead, flow>>

\* await asyncio.gather(...) raises the first failure to the caller
BulkRaises ==
    /\ bulk.pc = "gathering"
    /\ bulk.first # 0
    /\ bulk' = [bulk EXCEPT !.pc = "raised",
                            !.exc = [n |-> bulk.first, kind |-> bulk.st[bulk.first]]]
    /\ UNCHANGED <<icaos, data, pc, tasks, cycle, outcome, lastRead, flow>>

\* every task returned: return results
BulkReturns ==
    /\ bulk.pc = "gathering"
    /\ \A n \in DOMAIN bulk.st : bulk.st[n] = "done"
    /\ bulk' = [bulk EXCEPT !.pc = "returned", !.ret = bulk.results]
    /\ UNCHANGED <<icaos, data, pc, tasks, cycle, outcome, lastRead, flow>>

\* stations a call is made with at most
MaxStations == 2

KCL == <<"K", "C", "L">>

\* the codes a caller passes, each with the code it stands for (<<>>: none)
StationInputs ==
    {[text |-> <<" ", "k", "c", "l", "t">>, code |-> KCLT],
     [text |-> <<"K", "R", "U", "Q", "\n">>, code |-> KRUQ],
     [text |-> <<"k", "c", "l", " ">>, code |-> KCL],
     [text |-> <<" ", "\t">>, code |-> <<>>],
     [text |-> <<>>, code |-> <<>>]}

Notam(k) == JObj("id" :> JNum(k, 1))

\* the answers of the NOTAM provider, each with the records it holds or why
\* the fetch fails on it
NotamAnswers ==
    {[resp |-> [status |-> 200, exc |-> "none",
                payload |-> JList(<<Notam(1), JNum(7, 1), Notam(2)>>)],
      ok |-> TRUE, recs |-> <<Notam(1), Notam(2)>>, exc |-> "none"],
     [resp |-> [status |-> 200, exc |-> "none",
                payload |-> JObj("notams" :> JStr(<<"x">>) @@ "items" :> JList(<<Notam(3)>>))],
      ok |-> TRUE, recs |-> <<Notam(3)>>, exc |-> "none"],
     [resp |-> [status |-> 200, exc |-> "none", payload |-> JObj("results" :> JList(<<>>))],
      ok |-> TRUE, recs |-> <<>>, exc |-> "none"],
     [resp |-> [status |-> 200, exc |-> "none", payload |-> JObj("count" :> JNum(0, 1))],
      ok |-> FALSE, recs |-> <<>>, exc |-> "ValueError"],
     [resp |-> [status |-> 404, exc |-> "none", payload |-> None],
      ok |-> FALSE, recs |-> <<>>, exc |-> "RuntimeError"],
     [resp |-> [status |-> 0, exc |-> "timeout", payload |-> None],
      ok |-> FALSE, recs |-> <<>>, exc |-> "RuntimeError"]}

\* a code that is not four characters long is refused before any request
NotamResponses(code) ==
    IF Len(code) = 4 THEN {a.resp : a \in NotamAnswers} ELSE {NoResp}

InitNotams ==
    /\ icaos = <<>>
    /\ data = None
    /\ pc = "idle"
    /\ tasks = [e \in Endpoints |-> NoTask]
    /\ cycle = 0
    /\ outcome = [last |-> "none", okCycle |-> 0]
    /\ lastRead = NoRead
    /\ flow = NoFlow
    /\ bulk = NoBulk

NextNotams ==
    \/ \E k \in 0..MaxStations : \E list \in [1..k -> {s.text : s \in StationInputs}] :
         FetchNotamsBulk(list)
    \/ \E n \in DOMAIN bulk.st : \E resp \in NotamResponses(bulk.clean_icaos[n]) :
         One(n, resp)
    \/ BulkRaises
    \/ BulkReturns

SpecNotams == InitNotams /\ [][NextNotams]_vars

(***************************************************************************)
(* Properties                                                              *)
(***************************************************************************)
Stamp(k) == JNum(k, 1)
AllDone == \A e \in Endpoints : tasks[e].st = "done"
SomeFailed == \E e \in Endpoints : tasks[e].st = "failed"

\* C1: a refresh starts both fetches together; it publishes a snapshot only from
\* the state in which both fetches have returned; and a refresh that ends with a
\* failed fetch ends in UpdateFailed and leaves coordinator.data as it was,
\* whatever the other fetch returned and in whichever order the two ended.
C1_PublishedOnlyAfterBothFetches ==
    [][ /\ (pc = "idle" /\ pc' = "gathering")
            => \A e \in Endpoints : tasks'[e].st = "pending"
        /\ (pc = "gathering" /\ pc' = "idle" /\ SomeFailed)
            => (outcome'.last = "UpdateFailed" /\ data' = data)
        /\ (data' # data \/ (pc = "gathering" /\ pc' = "idle" /\ outcome'.last = "ok"))
            => (pc = "gathering" /\ AllDone) ]_vars

\* the METAR fetch returned records, the TAF fetch failed, the cycle ended in
\* UpdateFailed and nothing was published
C1_Witness ==
    /\ pc = "idle"
    /\ outcome.last = "UpdateFailed"
    /\ tasks["metar"].st = "done"
    /\ tasks["metar"].recs # <<>>
    /\ tasks["taf"].st = "failed"
    /\ data = None

\* C2: the snapshot readers get is always the one the latest successful cycle
\* returned: its station list is the configured one, every record of its metar
\* map and of its taf map carries that cycle's time, and every read saw the
\* records of one cycle only; coordinator.data changes only in the step that
\* ends a cycle in success.
C2_ReadersSeeOneCycle ==
    /\ [](/\ data = None => outcome.okCycle = 0
          /\ data # None =>
                /\ data.icaos = icaos
                /\ StampsOf(data).metar \subseteq {Stamp(outcome.okCycle)}
                /\ StampsOf(data).taf \subseteq {Stamp(outcome.okCycle)}
          /\ Cardinality(lastRead.seen.metar \cup lastRead.seen.taf) <= 1)
    /\ [][ /\ lastRead' # lastRead =>
                lastRead'.seen.metar \cup lastRead'.seen.taf \subseteq {Stamp(outcome.okCycle)}
           /\ data' # data =>
                (pc = "gathering" /\ AllDone /\ outcome'.last = "ok"
                 /\ outcome'.okCycle = cycle) ]_vars

\* a read after the second cycle failed still sees the first cycle's snapshot
C2_Witness ==
    /\ cycle = 2
    /\ pc = "idle"
    /\ outcome = [last |-> "UpdateFailed", okCycle |-> 1]
    /\ tasks["metar"].st = "done"
    /\ tasks["metar"].recs # <<>>
    /\ lastRead.key = "taf_raw"
    /\ lastRead.value = JStr(<<"R">>)
    /\ lastRead.seen = [metar |-> {Stamp(1)}, taf |-> {Stamp(1)}]

\* C3: every key of the metar map and of the taf map of the published snapshot
\* is one of the snapshot's stations.
C3_KeysAreStations ==
    data # None => (DOMAIN data.metar \cup DOMAIN data.taf) \subseteq Range(data.icaos)

\* the records of a fetch are station reports: objects whose identifiers, where
\* they have any, are strings
StationReports(recs) ==
    \A i \in DOMAIN recs :
        /\ recs[i].t = "obj"
        /\ \A k \in {"icaoId", "stationId"} \cap DOMAIN recs[i].o :
              recs[i].o[k].t \in {"str", "null"}
\* record r holds a non-empty string under key k
HasId(r, k) == k \in DOMAIN r.o /\ r.o[k].t = "str" /\ r.o[k].s # <<>>
\* the stations a list of station reports reports on
Reported(recs) ==
    {Upper(recs[i].o["icaoId"].s) : i \in {j \in DOMAIN recs : HasId(recs[j], "icaoId")}}
    \cup {Upper(recs[i].o["stationId"].s) :
            i \in {j \in DOMAIN recs : ~HasId(recs[j], "icaoId") /\ HasId(recs[j], "stationId")}}

\* C7: a 204 answer makes its fetch return the empty list; and a cycle whose TAF
\* request answered 204 and whose METAR request answered 200 with station
\* reports ends in success, with a snapshot that has an entry for every reported
\* station in the metar map and an empty taf map.
C7_NoContentIsZeroRecords ==
    /\ \A e \in Endpoints :
          (tasks[e].resp.status = 204 /\ tasks[e].resp.exc = "none")
              => (tasks[e].st = "done" /\ tasks[e].recs = <<>>)
    /\ (/\ pc = "idle"
        /\ tasks["taf"].resp.status = 204
        /\ tasks["taf"].resp.exc = "none"
        /\ tasks["metar"].st = "done"
        /\ tasks["metar"].resp.status = 200
        /\ StationReports(tasks["metar"].recs))
       => /\ outcome = [last |-> "ok", okCycle |-> cycle]
          /\ data # None
          /\ data.taf = EmptyMap
          /\ DOMAIN data.metar = Reported(tasks["metar"].recs)

\* METAR 200 with two reported stations, TAF 204, published
C7_Witness ==
    /\ pc = "idle"
    /\ tasks["taf"].resp.status = 204
    /\ tasks["metar"].resp.status = 200
    /\ outcome.last = "ok"
    /\ data # None
    /\ DOMAIN data.metar = {KCLT, KINT}
    /\ DOMAIN data.taf = {}

\* the keys of a payload object under which _fetch looks for the list
ListKeys(e, p) == {k \in {"data", "results", e} \cap DOMAIN p.o : p.o[k].t = "list"}

\* C8: a fetch that got a 200 answer with a parseable payload returns: the list
\* itself for a bare list; the wrapped list for an object that holds a list under
\* one of data, results and the endpoint's name (one of them when it holds more);
\* the empty list for every other payload; and it never fails.
C8_PayloadShapesNormalize ==
    \A e \in Endpoints :
        (tasks[e].st # "pending" /\ tasks[e].resp.status = 200 /\ tasks[e].resp.exc = "none")
        => LET p == tasks[e].resp.payload
           IN  /\ tasks[e].st = "done"
               /\ p.t = "list" => tasks[e].recs = p.items
               /\ (p.t = "obj" /\ ListKeys(e, p) # {})
                     => \E k \in ListKeys(e, p) : tasks[e].recs = p.o[k].items
               /\ (p.t = "obj" /\ ListKeys(e, p) = {}) => tasks[e].recs = <<>>
               /\ p.t \notin {"list", "obj"} => tasks[e].recs = <<>>

\* the same list, bare for one endpoint and wrapped under results for the other,
\* gave the same records
C8_Witness ==
    /\ tasks["metar"].st = "done"
    /\ tasks["taf"].st = "done"
    /\ tasks["metar"].resp.payload.t = "list"
    /\ Len(tasks["metar"].recs) = 3
    /\ tasks["taf"].resp.payload.t = "obj"
    /\ DOMAIN tasks["taf"].resp.payload.o = {"results"}
    /\ Len(tasks["taf"].recs) = 3
    /\ tasks["taf"].resp.payload.o["results"].items = tasks["taf"].recs

\* the report the last read was made on (None when the station has none)
ReadReport == MetarItem(data, lastRead.icao)
CategoryKeys == {"fltCat", "flightCategory", "fltcat"}
VisibilityKeys ==
    {"visib", "vis", "visibility", "visSm", "visibilityMeters", "visMeters", "vis_m"}
AltimeterKeys == {"altim", "altimHg", "altimeter", "altim_inhg", "qnh", "QNH"}
TemperatureKeys == {"temp", "tempC", "temperature", "tmpc"}
Restrict(m, keys) == [k \in DOMAIN m.o \cap keys |-> m.o[k]]
VisibilityCase(m) == CHOOSE c \in VisibilityCases : c.o = Restrict(m, VisibilityKeys)
AltimeterCase(m) == CHOOSE c \in AltimeterCases : c.o = Restrict(m, AltimeterKeys)
TemperatureCase(m) == CHOOSE c \in TemperatureCases : c.o = Restrict(m, TemperatureKeys)

\* the cloud layers of a report (none when the field is missing or null)
LayersOf(m) ==
    IF "clouds" \in DOMAIN m.o /\ m.o["clouds"].t = "list" THEN m.o["clouds"].items ELSE <<>>
\* the cloud field is missing, null or a list of layers with a cover of the enum
\* and a base that is a number or absent
CloudsWellFormed(m) ==
    /\ "clouds" \in DOMAIN m.o => m.o["clouds"].t \in {"null", "list"}
    /\ \A i \in DOMAIN LayersOf(m) :
          LET l == LayersOf(m)[i]
          IN  /\ l.t = "obj"
              /\ "cover" \in DOMAIN l.o
              /\ l.o["cover"].t = "str"
              /\ l.o["cover"].s \in {FEW, SCT, BKN, OVC, VV, CLR, SKC}
              /\ "base_ft_agl" \in DOMAIN l.o => l.o["base_ft_agl"].t \in {"num", "null"}
\* the layers with a BKN, OVC or VV cover, and their numeric bases
CeilingLayers(m) ==
    {i \in DOMAIN LayersOf(m) : LayersOf(m)[i].o["cover"].s \in {BKN, OVC, VV}}
NumericBases(m) ==
    {LayersOf(m)[i].o["base_ft_agl"].f :
        i \in {j \in CeilingLayers(m) : /\ "base_ft_agl" \in DOMAIN LayersOf(m)[j].o
                                        /\ LayersOf(m)[j].o["base_ft_agl"].t = "num"}}
\* x < n for a rational x and an integer n
Below(x, n) == x.num < n * x.den
\* 0 LIFR, 1 IFR, 2 MVFR, 3 VFR
Categories == <<LIFR, IFR, MVFR, VFR>>
CeilingRank(c) ==
    IF Below(c, 500) THEN 0 ELSE IF Below(c, 1000) THEN 1 ELSE IF Below(c, 3000) THEN 2 ELSE 3
VisibilityRank(v) ==
    IF Below(v, 1) THEN 0 ELSE IF Below(v, 3) THEN 1 ELSE IF Below(v, 5) THEN 2 ELSE 3

\* C4: a flight category read on a report with no category field, no BKN, OVC or
\* VV layer (or no cloud field) and no visibility field is absent.
C4_NoInputsNoCategory ==
    (/\ lastRead.key = "flight_category"
     /\ Truthy(ReadReport)
     /\ DOMAIN ReadReport.o \cap (CategoryKeys \cup VisibilityKeys) = {}
     /\ CloudsWellFormed(ReadReport)
     /\ CeilingLayers(ReadReport) = {})
    => lastRead.value = None

\* C5: a flight category read on a report with no category field, a lowest
\* numeric BKN, OVC or VV base c and a visibility v is the worse of the category
\* of c (below 500 LIFR, below 1000 IFR, below 3000 MVFR, else VFR) and the
\* category of v (below 1 LIFR, below 3 IFR, below 5 MVFR, else VFR).
C5_WorseOfCeilingAndVisibility ==
    (/\ lastRead.key = "flight_category"
     /\ Truthy(ReadReport)
     /\ DOMAIN ReadReport.o \cap CategoryKeys = {}
     /\ CloudsWellFormed(ReadReport)
     /\ NumericBases(ReadReport) # {}
     /\ VisibilityCase(ReadReport).mi # None)
    => LET bases == NumericBases(ReadReport)
           c == CHOOSE x \in bases : \A y \in bases : x.num * y.den <= y.num * x.den
           v == VisibilityCase(ReadReport).mi
           rc == CeilingRank(c)
           rv == VisibilityRank(v)
       IN  lastRead.value = JStr(Categories[(IF rc < rv THEN rc ELSE rv) + 1])

\* ceiling 3000 ft and visibility 3/4 mi read as LIFR
C5_Witness ==
    /\ lastRead.key = "flight_category"
    /\ lastRead.icao = KCLT
    /\ ReadReport # None
    /\ LayersOf(ReadReport) = <<Layer(BKN, JNum(3000, 1))>>
    /\ VisibilityCase(ReadReport).mi = [num |-> 3, den |-> 4]
    /\ lastRead.value = JStr(LIFR)

C10_DensityAltitudeAbsentOrFormula ==
    lastRead.key = "density_altitude" =>
        IF ~Truthy(ReadReport) \/ lastRead.icao \notin {KCLT, KINT, KRUQ}
        THEN lastRead.value = None
        ELSE LET a == AltimeterCase(ReadReport).inhg100
                 t == TemperatureCase(ReadReport).c
             IN  IF a = -1 \/ t = None THEN lastRead.value = None
                 ELSE IF a = -2 \/ ~IsFinite(t) THEN TRUE
                 ELSE LET elev == IF lastRead.icao = KCLT THEN 748
                                  ELSE IF lastRead.icao = KINT THEN 969 ELSE 772
                          pa == elev + (2992 - a) * 10
                          \* the formula times d
                          nd == 124 * t.den * pa + 12000 * t.num - 180000 * t.den
                          d == 100 * t.den
                      IN  /\ lastRead.value.t = "int"
                          /\ 2 * Abs(lastRead.value.n * d - nd) <= d

\* KCLT at 30.05 inHg and 12.5 C reads 466 ft
C10_Witness ==
    /\ lastRead.key = "density_altitude"
    /\ lastRead.icao = KCLT
    /\ ReadReport # None
    /\ AltimeterCase(ReadReport).inhg100 = 3005
    /\ TemperatureCase(ReadReport).c = [num |-> 25, den |-> 2]
    /\ lastRead.value = [t |-> "int", n |-> 466]

\* the station codes of a submission: its pieces trimmed and upper-cased,
\* without the empty ones
SubmittedCodes == {Upper(Strip(flow.pieces[i])) : i \in DOMAIN flow.pieces} \ {<<>>}
IsCode(c) == Len(c) = 4 /\ \A i \in 1..4 : c[i] \in Range(UpperCase) \cup Range(Digits)
Acceptable == SubmittedCodes # {} /\ \A c \in SubmittedCodes : IsCode(c)

\* C9: a submission of either step creates an entry exactly when it has a code
\* and all its codes are four characters of A-Z and 0-9; the entry's station
\* list is then the codes in increasing order, each once; any other submission
\* shows the form again with invalid_icao and creates no entry.
C9_EntryIffAllCodesValid ==
    flow.text # <<>> \/ flow.pieces # <<>> =>
        /\ flow.result = "create_entry" <=> Acceptable
        /\ Acceptable =>
              /\ flow.entry # None
              /\ flow.errors = ""
              /\ Range(flow.entry.icaos) = SubmittedCodes
              /\ \A i \in 1..(Len(flow.entry.icaos) - 1) :
                    StrLess(flow.entry.icaos[i], flow.entry.icaos[i + 1])
        /\ ~Acceptable =>
              (flow.result = "form" /\ flow.errors = "invalid_icao" /\ flow.entry = None)

\* the options flow takes " kint\t;EG11" and stores EG11, KINT
C9_Witness ==
    /\ flow.step = "init"
    /\ flow.text = <<" ", "k", "i", "n", "t", "\t", ";", "E", "G", "1", "1">>
    /\ flow.result = "create_entry"
    /\ flow.entry.icaos = <<<<"E", "G", "1", "1">>, KINT>>

\* the code an input of the call stands for, and what an answer holds
CodeOf(text) == (CHOOSE s \in StationInputs : s.text = text).code
AnswerTo(resp) == CHOOSE a \in NotamAnswers : a.resp = resp
\* the trimmed, upper-cased, non-empty input codes, in the order of the call
RequestedCodes ==
    SelectSeq([i \in DOMAIN bulk.icaos |-> CodeOf(bulk.icaos[i])], LAMBDA c : c # <<>>)
\* the per-station fetch of the n-th requested code has ended, and how
FetchEnded(n) == bulk.st[n] # "pending"
FetchSucceeded(n) ==
    FetchEnded(n) /\ Len(RequestedCodes[n]) = 4 /\ AnswerTo(bulk.got[n]).ok
FetchFailure(n) ==
    IF Len(RequestedCodes[n]) # 4 THEN "ValueError" ELSE AnswerTo(bulk.got[n]).exc

\* C11: fetch_notams_bulk runs one fetch per trimmed, upper-cased, non-empty
\* input code; it returns only when every fetch succeeded, and then a map whose
\* keys are exactly those codes, each with the records one of that station's
\* fetches received; when it raises, it returns no map and the failure is that
\* of a fetch that failed.
C11_BulkReturnsAllOrRaises ==
    /\ bulk.pc # "none" =>
          (bulk.clean_icaos = RequestedCodes /\ DOMAIN bulk.st = DOMAIN RequestedCodes)
    /\ bulk.pc = "returned" =>
          /\ \A n \in DOMAIN bulk.st : FetchSucceeded(n)
          /\ DOMAIN bulk.ret = Range(RequestedCodes)
          /\ \A k \in DOMAIN bulk.ret :
                \E n \in DOMAIN bulk.st :
                    RequestedCodes[n] = k /\ bulk.ret[k] = AnswerTo(bulk.got[n]).recs
    /\ bulk.pc = "raised" =>
          /\ bulk.ret = None
          /\ FetchEnded(bulk.exc.n) /\ ~FetchSucceeded(bulk.exc.n)
          /\ bulk.exc.kind = FetchFailure(bulk.exc.n)
    /\ (\E n \in DOMAIN bulk.st : FetchEnded(n) /\ ~FetchSucceeded(n)) =>
          bulk.pc # "returned"

\* a call with " kclt" and "KRUQ\n" returned both stations, one of them from a
\* wrapped payload
C11_Witness ==
    /\ bulk.pc = "returned"
    /\ bulk.icaos = <<<<" ", "k", "c", "l", "t">>, <<"K", "R", "U", "Q", "\n">>>>
    /\ DOMAIN bulk.ret = {KCLT, KRUQ}
    /\ bulk.ret[KCLT] = <<Notam(1), Notam(2)>>
    /\ bulk.ret[KRUQ] = <<Notam(3)>>

\* the field the read metric is decoded from is there and malformed: a cloud
\* field that is not a list of objects, a temperature or altimeter that does
\* not decode to a finite number
MalformedFor(key, m) ==
    CASE key = "ceiling" ->
            /\ "clouds" \in DOMAIN m.o
            /\ m.o["clouds"].t # "null"
            /\ ~LayersIterable(m.o["clouds"])
      [] key = "temp" ->
            LET c == TemperatureCase(m) IN c.o # NoFields /\ (c.c = None \/ ~IsFinite(c.c))
      [] key = "altimeter" ->
            LET c == AltimeterCase(m) IN c.o # NoFields /\ c.inhg100 < 0
      [] OTHER -> FALSE
\* the snapshot with the cloud field of the read report taken out
WithoutClouds ==
    [data EXCEPT !.metar[lastRead.icao] =
        JObj(Restrict(ReadReport, DOMAIN ReadReport.o \ {"clouds"}))]

\* C12: no read of a metric raises; a metric whose field is malformed reads as
\* absent; and a malformed cloud field leaves the metrics decoded from other
\* fields (raw text, altimeter, temperature) as they are without it.
C12_MalformedFieldOnlyThatMetricAbsent ==
    /\ lastRead.value # Raise
    /\ (lastRead.key # "" /\ Truthy(ReadReport)) =>
          /\ MalformedFor(lastRead.key, ReadReport) => lastRead.value = None
          /\ lastRead.key \in {"metar_raw", "altimeter", "temp"} =>
                lastRead.value = ValueFn(lastRead.key, WithoutClouds, lastRead.icao)

\* C13: a flight category read on a report with no category field and exactly
\* one of ceiling and visibility: with no BKN, OVC or VV layer and a visibility
\* v it is the category of v alone (below 1 LIFR, below 3 IFR, below 5 MVFR,
\* else VFR); with a lowest numeric base c and no visibility it is the category
\* of c alone (below 500 LIFR, below 1000 IFR, below 3000 MVFR, else VFR).
C13_AbsentInputIsUnlimited ==
    (/\ lastRead.key = "flight_category"
     /\ Truthy(ReadReport)
     /\ DOMAIN ReadReport.o \cap CategoryKeys = {}
     /\ CloudsWellFormed(ReadReport))
    => LET bases == NumericBases(ReadReport)
           v == VisibilityCase(ReadReport).mi
       IN  /\ (CeilingLayers(ReadReport) = {} /\ v # None) =>
                 lastRead.value = JStr(Categories[VisibilityRank(v) + 1])
           /\ (bases # {} /\ v = None) =>
                 LET c == CHOOSE x \in bases : \A y \in bases : x.num * y.den <= y.num * x.den
                 IN  lastRead.value = JStr(Categories[CeilingRank(c) + 1])

\* the station a fetched record belongs to, and the records an endpoint's task
\* fetched in the cycle that just ended
KeyOf(e, rec) == (CHOOSE c \in IdCases(e) : c.rec = rec).key
Fetched(e) == tasks[e].resp.payload.items
StationOf(e, i) == KeyOf(e, Fetched(e)[i])

\* C14: when both fetches returned, the refresh succeeds whether or not records
\* lack an identifier, and each map of the snapshot has exactly the upper-cased
\* identifiers of the fetched records as keys (icaoId when it is there and not
\* empty, else stationId), each with the last fetched record of that station.
C14_KeyedByUpperCasedIdentifier ==
    (pc = "idle" /\ AllDone) =>
        /\ outcome.last = "ok"
        /\ \A e \in Endpoints :
              LET L == Fetched(e)
                  keys == {StationOf(e, i) : i \in DOMAIN L} \ {<<>>}
              IN  /\ DOMAIN data[e] = keys
                  /\ \A k \in keys :
                        LET last == CHOOSE i \in DOMAIN L :
                                       /\ StationOf(e, i) = k
                                       /\ \A j \in DOMAIN L : StationOf(e, j) = k => j <= i
                        IN  data[e][k] = L[last]

\* an empty icaoId with stationId "kclt", then a record with no identifier: the
\* snapshot holds the first under KCLT and the refresh succeeded
C14_Witness ==
    /\ pc = "idle"
    /\ outcome.last = "ok"
    /\ Len(Fetched("metar")) = 2
    /\ Get(Fetched("metar")[1], "icaoId") = JStr(<<>>)
    /\ Get(Fetched("metar")[1], "stationId") = JStr(kclt)
    /\ DOMAIN Fetched("metar")[2].o \cap {"icaoId", "stationId"} = {}
    /\ DOMAIN data.metar = {KCLT}
    /\ data.metar[KCLT] = Fetched("metar")[1]

StructuredKeys == {"visib", "vis", "visibility", "visSm"}
MetersKeys == {"visibilityMeters", "visMeters", "vis_m"}
RawTextKeys == {"rawOb", "rawText", "text", "metar"}
StructuredCase(m) == CHOOSE c \in StructuredCases : c.o = Restrict(m, StructuredKeys)
MetersCase(m) == CHOOSE c \in MetersCases : c.o = Restrict(m, MetersKeys)
RawTextCase(m) == CHOOSE c \in RawTextCases : c.o = Restrict(m, RawTextKeys)

\* C15: a visibility read is the structured statute-mile value when that
\* decodes; else the meters value over 1609.344 when that decodes; else the
\* value of the SM group of the raw text (whole, P and whole, whole and
\* fraction, fraction) when it has one; else 6.2 when the raw text contains
\* CAVOK; else absent. (A fraction over zero is left aside.)
C15_VisibilityPriorityChain ==
    (lastRead.key = "visibility" /\ Truthy(ReadReport)) =>
        LET s == StructuredCase(ReadReport).mi
            m == MetersCase(ReadReport).mi
            r == RawTextCase(ReadReport)
        IN  IF s # None THEN lastRead.value = s
            ELSE IF m # None THEN lastRead.value = m
            ELSE IF r.sm = Raise THEN TRUE
            ELSE IF r.sm # None THEN lastRead.value = r.sm
            ELSE IF r.cavok THEN lastRead.value = [num |-> 31, den |-> 5]
            ELSE lastRead.value = None

\* a structured "10+" and an unusable meters field leave the raw text
\* "K 1 1/2SM X" to give 1.5 mi
C15_Witness ==
    /\ lastRead.key = "visibility"
    /\ Truthy(ReadReport)
    /\ Get(ReadReport, "visib") = JStr(<<"1", "0", "+">>)
    /\ Get(ReadReport, "visMeters") = JStr(<<"x">>)
    /\ Get(ReadReport, "rawOb") = JStr(<<"K", " ", "1", " ", "1", "/", "2", "S", "M", " ", "X">>)
    /\ lastRead.value = [num |-> 3, den |-> 2]

=============================================================================
